---- MODULE Spec2Model ----
(***************************************************************************)
(* Model of ALCARECO_estimation_overall_Run3_withMonitor_slim.py: a        *)
(* sequential script that lists datasets through the dasgoclient           *)
(* executable, fetches size and event count of each listed dataset, folds  *)
(* them into per-group totals and year buckets, and prints one report      *)
(* block per group.                                                        *)
(*                                                                         *)
(* A dataset name is a sequence of segments; a year token ("Run2022", ...) *)
(* is one segment, so `tok in name` is membership of the token among the   *)
(* segments (no year token overlaps another one, so the substring test     *)
(* and the segment test agree on names cut at the tokens).                 *)
(* A Python value that is None or an int is [isNone, val].                 *)
(* A JSON value carries its type: [type |-> "list" | "object" | "number" | *)
(* "string" | "None", ...]; an object carries the set of its keys.         *)
(***************************************************************************)
EXTENDS Integers, Sequences, FiniteSets, TLC

VARIABLES
    pc,             \* position in main: "groups", "fold", "report", "done", "crashed"
    error,          \* the uncaught exception that ended the run, or "none"
    gi,             \* index of the group being processed (line 128)
    pi,             \* index of the next pattern of the group (line 74)
    datasets,       \* names of the current listing not yet folded (line 77)
    results,        \* the results dict being built by process_datasets
    group_results,  \* main's group_results, in insertion order
    ri,             \* index of the next group to report (line 131)
    printed,        \* the report blocks printed so far
    n_list_queries, \* history: number of listing invocations of the client
    n_info_queries, \* history: number of metadata invocations of the client
    listed,         \* history: names listed for the current group, in order
    fetched,        \* history: (name, size, events) fetched for the current group
    n_failed,       \* history: listings of the current group that exited non-zero
    n_listed,       \* history: number of names listed in the run
    parse_in,       \* the client run handed to a parser on its own
    parse_out       \* what the parser returned for parse_in

vars == <<pc, error, gi, pi, datasets, results, group_results, ri, printed,
          n_list_queries, n_info_queries, listed, fetched, n_failed, n_listed,
          parse_in, parse_out>>

-----------------------------------------------------------------------------
(* Bounds *)

\* groups of main's table that are processed
MaxGroups == 2
\* patterns of each group that are processed
MaxPatterns == 2
\* dataset names the catalog lists during one run
MaxListed == 2
\* records of one client response
MaxRecords == 2

-----------------------------------------------------------------------------
(* Configuration: main's group_patterns, each group with its number of     *)
(* patterns (the pattern strings only select what the catalog answers).    *)

group_patterns ==
    << [name |-> "PPS",   patterns |-> 1],
       [name |-> "TkAl",  patterns |-> 10],
       [name |-> "BRIL",  patterns |-> 2],
       [name |-> "ECAL",  patterns |-> 2],
       [name |-> "Pixel", patterns |-> 2] >>

Min(a, b) == IF a < b THEN a ELSE b

NumGroups == Min(MaxGroups, Len(group_patterns))

NumPatterns(g) == Min(MaxPatterns, group_patterns[g].patterns)

-----------------------------------------------------------------------------
(* Python and JSON values *)

None == [isNone |-> TRUE, val |-> 0]

Num(n) == [isNone |-> FALSE, val |-> n]

Years == <<"2022", "2023", "2024">>

YearSet == {Years[i] : i \in 1..Len(Years)}

YearToken(y) == CASE y = "2022" -> "Run2022"
                  [] y = "2023" -> "Run2023"
                  [] y = "2024" -> "Run2024"

\* `tok in dataset` of lines 84, 87, 90
Contains(tok, name) == \E i \in 1..Len(name) : name[i] = tok

Name2022  == <<"/A/", "Run2022", "X/ALCARECO">>
Name2023  == <<"/B/", "Run2023", "Y/ALCARECO">>
Name2024  == <<"/C/", "Run2024", "Z/ALCARECO">>
NameOther == <<"/D/", "Run2018", "W/ALCARECO">>
NameMulti == <<"/", "Run2024", "/", "Run2022", "V/ALCARECO">>

Names == {Name2022, Name2023, Name2024, NameOther, NameMulti}

NoName == <<>>

\* a JSON object of a 'dataset' list
DsObject(keys, name, size, nevents) ==
    [type |-> "object", keys |-> keys, name |-> name, size |-> size, nevents |-> nevents]

\* a member of a 'dataset' list that is no object
DsScalar(t) == [type |-> t, keys |-> {}, name |-> NoName, size |-> None, nevents |-> None]

\* members of the 'dataset' list of a listing answer
ListInfos ==
    {DsObject({"name"}, n, None, None) : n \in Names}
    \cup {DsObject({}, NoName, None, None), DsScalar("number")}

\* members of the 'dataset' list of a metadata answer
MetaInfos ==
    { DsObject({"name", "size", "nevents"}, NoName, Num(2), Num(1)),
      DsObject({"name", "size", "nevents"}, NoName, Num(0), Num(0)),
      DsObject({"name", "size", "nevents"}, NoName, None, Num(1)),
      DsObject({"name", "size", "nevents"}, NoName, Num(2), None),
      DsObject({"name", "size"}, NoName, Num(2), None),
      DsObject({"name", "nevents"}, NoName, None, Num(1)),
      DsObject({"name"}, NoName, None, None),
      DsScalar("number"),
      DsScalar("string") }

SeqsUpTo(S, n) == UNION {[1..k -> S] : k \in 0..n}

EntryObject(keys, dtype, items) ==
    [type |-> "object", keys |-> keys, dataset |-> [type |-> dtype, items |-> items]]

\* records of an answer: well formed with up to m members, without the
\* 'dataset' key, with a 'dataset' that is no list, and no object at all
Entries(infos, m) ==
    {EntryObject({"dataset"}, "list", s) : s \in SeqsUpTo(infos, m)}
    \cup { EntryObject({}, "None", <<>>),
           EntryObject({"dataset"}, "number", <<>>),
           [type |-> "number", keys |-> {}, dataset |-> [type |-> "None", items |-> <<>>]] }

\* what json.loads can return: a list of up to n records of up to m members,
\* or a number
JsonData(infos, m, n) ==
    {[type |-> "list", items |-> s] : s \in SeqsUpTo(Entries(infos, m), n)}
    \cup {[type |-> "number", items |-> <<>>]}

NoData == [type |-> "None", items |-> <<>>]

\* outcomes of one run of the client: exit code, and what stdout parses to
ClientRuns(infos, m, n) ==
    {[returncode |-> 0, stdout |-> "json", data |-> d] : d \in JsonData(infos, m, n)}
    \cup { [returncode |-> 1, stdout |-> "json", data |-> NoData],
           [returncode |-> 0, stdout |-> "garbage", data |-> NoData] }

-----------------------------------------------------------------------------
(* get_das_data, lines 8-20 *)

\* mutant: CalledProcessError is not caught
get_das_data_NoExcept(run) ==
    IF run.returncode # 0 THEN [raised |-> "CalledProcessError", data |-> NoData]
    ELSE IF run.stdout # "json" THEN [raised |-> "JSONDecodeError", data |-> NoData]
    ELSE [raised |-> "none", data |-> run.data]

\* check=True raises CalledProcessError on a non-zero exit, which is caught and
\* answered with None; json.loads raises on text that is no JSON, which is not
\* caught
get_das_data(run) ==
    IF run.returncode # 0 THEN [raised |-> "none", data |-> NoData]
    ELSE IF run.stdout # "json" THEN [raised |-> "JSONDecodeError", data |-> NoData]
    ELSE [raised |-> "none", data |-> run.data]

\* `not data` of lines 28 and 47
Falsy(data) == data.type = "None" \/ (data.type = "list" /\ data.items = <<>>)

-----------------------------------------------------------------------------
(* get_datasets, lines 23-40 *)

\* the inner loop of lines 35-36 over one 'dataset' list
RECURSIVE WalkNames(_, _)
WalkNames(infos, acc) ==
    IF infos = <<>> THEN [err |-> FALSE, names |-> acc]
    ELSE LET ds_info == Head(infos) IN
         IF ds_info.type # "object" \/ "name" \notin ds_info.keys
         THEN [err |-> TRUE, names |-> acc]
         ELSE WalkNames(Tail(infos), Append(acc, ds_info.name))

\* the outer loop of lines 34-36 over the records
RECURSIVE WalkEntries(_, _)
WalkEntries(entries, acc) ==
    IF entries = <<>> THEN [err |-> FALSE, names |-> acc]
    ELSE LET entry == Head(entries) IN
         IF entry.type # "object" \/ "dataset" \notin entry.keys
            \/ entry.dataset.type # "list"
         THEN [err |-> TRUE, names |-> acc]
         ELSE LET w == WalkNames(entry.dataset.items, acc) IN
              IF w.err THEN w ELSE WalkEntries(Tail(entries), w.names)

\* mutant: the names collected before the walk raised are returned
ListingOf_KeepPartial(data) ==
    IF data.type # "list" THEN <<>>
    ELSE WalkEntries(data.items, <<>>).names

\* lines 32-40: the names collected by the walk, or [] when the walk raised
ListingOf(data) ==
    IF data.type # "list" THEN <<>>
    ELSE LET w == WalkEntries(data.items, <<>>) IN
         IF w.err THEN <<>> ELSE w.names

get_datasets(run) ==
    LET r == get_das_data(run) IN
    IF r.raised # "none" THEN [raised |-> r.raised, datasets |-> <<>>]
    ELSE IF Falsy(r.data) THEN [raised |-> "none", datasets |-> <<>>]
    ELSE [raised |-> "none", datasets |-> ListingOf(r.data)]

-----------------------------------------------------------------------------
(* get_dataset_info, lines 43-62 *)

Pair(size, events) == [unpackable |-> TRUE, size |-> size, events |-> events]

\* the value of a function that ends without a return statement
BareNone == [unpackable |-> FALSE, size |-> None, events |-> None]

\* lines 55-59 over one 'dataset' list: "found" with the pair, "raised", or
\* "next" when the list is exhausted; `'size' in ds_info` raises on a number
\* and is False on a string
RECURSIVE WalkInfo(_)
WalkInfo(infos) ==
    IF infos = <<>> THEN [how |-> "next", size |-> None, events |-> None]
    ELSE LET ds_info == Head(infos) IN
         IF ds_info.type = "number"
         THEN [how |-> "raised", size |-> None, events |-> None]
         ELSE IF ds_info.type = "object" /\ "size" \in ds_info.keys
                 /\ "nevents" \in ds_info.keys
         THEN [how |-> "found", size |-> ds_info.size, events |-> ds_info.nevents]
         ELSE WalkInfo(Tail(infos))

\* lines 53-62 over the records
RECURSIVE WalkInfoEntries(_)
WalkInfoEntries(entries) ==
    IF entries = <<>> THEN BareNone
    ELSE LET entry == Head(entries) IN
         IF entry.type # "object" \/ "dataset" \notin entry.keys
            \/ entry.dataset.type # "list"
         THEN Pair(None, None)
         ELSE LET w == WalkInfo(entry.dataset.items) IN
              CASE w.how = "found"  -> Pair(w.size, w.events)
                [] w.how = "raised" -> Pair(None, None)
                [] OTHER            -> WalkInfoEntries(Tail(entries))

InfoOf(data) ==
    IF data.type # "list" THEN Pair(None, None)
    ELSE WalkInfoEntries(data.items)

get_dataset_info(run) ==
    LET r == get_das_data(run) IN
    IF r.raised # "none" THEN [raised |-> r.raised, info |-> BareNone]
    ELSE IF Falsy(r.data) THEN [raised |-> "none", info |-> Pair(None, None)]
    ELSE [raised |-> "none", info |-> InfoOf(r.data)]

-----------------------------------------------------------------------------
(* process_datasets, lines 65-94 *)

\* a defaultdict(int): a function on the keys inserted so far
EmptyDict == [y \in {} |-> 0]

\* d[k] as an expression: the value, 0 for a missing key
DictGet(d, k) == IF k \in DOMAIN d THEN d[k] ELSE 0

\* mutant: d[k] = v
DictAdd_Assign(d, k, v) == [x \in DOMAIN d \cup {k} |-> IF x = k THEN v ELSE d[x]]

\* d[k] += v, which inserts a missing key
DictAdd(d, k, v) ==
    [x \in DOMAIN d \cup {k} |-> IF x = k THEN DictGet(d, k) + v ELSE d[x]]

\* lines 66-72
NewResults ==
    [total_datasets |-> 0, total_size |-> 0, total_events |-> 0,
     size_by_year |-> EmptyDict, count_by_year |-> EmptyDict]

\* mutant: the chain tests the years in the order 2024, 2023, 2022
YearBucket_LatestFirst(dataset) ==
    IF Contains("Run2024", dataset) THEN "2024"
    ELSE IF Contains("Run2023", dataset) THEN "2023"
    ELSE IF Contains("Run2022", dataset) THEN "2022"
    ELSE "none"

\* mutant: the last branch is an else, so a name without a token goes to 2024
YearBucket_ElseLast(dataset) ==
    IF Contains("Run2022", dataset) THEN "2022"
    ELSE IF Contains("Run2023", dataset) THEN "2023"
    ELSE "2024"

\* the if/elif chain of lines 84-92: the bucket of a name, "none" without one
YearBucket(dataset) ==
    IF Contains("Run2022", dataset) THEN "2022"
    ELSE IF Contains("Run2023", dataset) THEN "2023"
    ELSE IF Contains("Run2024", dataset) THEN "2024"
    ELSE "none"

\* mutant: only the size is tested
Counted_SizeOnly(size, events) == ~size.isNone

\* line 79
Counted(size, events) == ~size.isNone /\ ~events.isNone

\* lines 84-92
AddToYear(res, dataset, size) ==
    LET y == YearBucket(dataset) IN
    IF y = "none" THEN res
    ELSE [res EXCEPT !.size_by_year = DictAdd(@, y, size),
                     !.count_by_year = DictAdd(@, y, 1)]

\* lines 79-92: one dataset folded into the results
FoldOne(res, dataset, size, events) ==
    IF Counted(size, events)
    THEN AddToYear([res EXCEPT !.total_datasets = @ + 1,
                               !.total_size = @ + size.val,
                               !.total_events = @ + events.val],
                   dataset, size.val)
    ELSE res

\* mutant: a name is processed once per listing
tqdm_Unique(names) ==
    LET first == {i \in 1..Len(names) : \A j \in 1..(i - 1) : names[j] # names[i]}
        pos == [k \in 1..Cardinality(first) |->
                  CHOOSE i \in first : Cardinality({j \in first : j < i}) = k - 1]
    IN [k \in 1..Cardinality(first) |-> names[pos[k]]]

\* line 77: tqdm yields every member of the listing, in order
tqdm(names) == names

\* what one listing call can come to: the client's exit code and what
\* get_datasets makes of the answer (records of one member)
ListOutcomes ==
    {[returncode |-> run.returncode, out |-> get_datasets(run)] :
        run \in ClientRuns(ListInfos, 1, MaxRecords)}

\* what one metadata call can come to
InfoOutcomes ==
    {[returncode |-> run.returncode, out |-> get_dataset_info(run)] :
        run \in ClientRuns(MetaInfos, 1, MaxRecords)}

\* line 94 is reached: every pattern of the group is listed and folded
AtReturn == pc = "fold" /\ datasets = <<>> /\ pi > NumPatterns(gi)

NoParse == [kind |-> "none",
            run |-> [returncode |-> 0, stdout |-> "json", data |-> NoData]]

NoAnswer == [raised |-> "none"]

Crash(e) ==
    /\ pc' = "crashed"
    /\ error' = e

-----------------------------------------------------------------------------
(* main, lines 97-151 *)

Init ==
    /\ pc = "groups"
    /\ error = "none"
    /\ gi = 1
    /\ pi = 1
    /\ datasets = <<>>
    /\ results = NewResults
    /\ group_results = <<>>
    /\ ri = 1
    /\ printed = <<>>
    /\ n_list_queries = 0
    /\ n_info_queries = 0
    /\ listed = <<>>
    /\ fetched = <<>>
    /\ n_failed = 0
    /\ n_listed = 0
    /\ parse_in = NoParse
    /\ parse_out = NoAnswer

\* lines 128-129 and 66-72: the call of process_datasets for the next group
BeginGroup ==
    /\ pc = "groups"
    /\ gi <= NumGroups
    /\ pc' = "fold"
    /\ pi' = 1
    /\ datasets' = <<>>
    /\ results' = NewResults
    /\ listed' = <<>>
    /\ fetched' = <<>>
    /\ n_failed' = 0
    /\ UNCHANGED <<error, gi, group_results, ri, printed, n_list_queries,
                   n_info_queries, n_listed, parse_in, parse_out>>

\* lines 74-75: the next pattern is listed
ListPattern ==
    /\ pc = "fold"
    /\ datasets = <<>>
    /\ pi <= NumPatterns(gi)
    /\ \E o \in ListOutcomes :
        /\ n_listed + Len(o.out.datasets) <= MaxListed
        /\ n_list_queries' = n_list_queries + 1
        /\ n_failed' = IF o.returncode # 0 THEN n_failed + 1 ELSE n_failed
        /\ IF o.out.raised # "none"
           THEN /\ Crash(o.out.raised)
                /\ UNCHANGED <<pi, datasets, listed, n_listed>>
           ELSE /\ datasets' = tqdm(o.out.datasets)
                /\ listed' = listed \o o.out.datasets
                /\ n_listed' = n_listed + Len(o.out.datasets)
                /\ pi' = pi + 1
                /\ UNCHANGED <<pc, error>>
    /\ UNCHANGED <<gi, results, group_results, ri, printed, fetched,
                   n_info_queries, parse_in, parse_out>>

\* lines 77-92: the metadata of the next dataset is fetched and folded
FoldDataset ==
    /\ pc = "fold"
    /\ datasets # <<>>
    /\ \E o \in InfoOutcomes :
        LET dataset == Head(datasets) IN
        /\ n_info_queries' = n_info_queries + 1
        /\ IF o.out.raised # "none"
           THEN /\ Crash(o.out.raised)
                /\ UNCHANGED <<datasets, results, fetched>>
           ELSE IF ~o.out.info.unpackable
           THEN /\ Crash("TypeError")
                /\ UNCHANGED <<datasets, results, fetched>>
           ELSE /\ results' = FoldOne(results, dataset, o.out.info.size, o.out.info.events)
                /\ fetched' = Append(fetched, [name |-> dataset,
                                                size |-> o.out.info.size,
                                                events |-> o.out.info.events])
                /\ datasets' = Tail(datasets)
                /\ UNCHANGED <<pc, error>>
    /\ UNCHANGED <<gi, pi, group_results, ri, printed, listed, n_failed, n_listed,
                   n_list_queries, parse_in, parse_out>>

\* lines 94 and 129: process_datasets returns and main stores the results;
\* the frame of the call, and the history of the group with it, is gone;
\* after the last group the loop of line 131 starts
ReturnGroup ==
    /\ AtReturn
    /\ group_results' = Append(group_results,
                               [name |-> group_patterns[gi].name, results |-> results])
    /\ gi' = gi + 1
    /\ pc' = IF gi = NumGroups THEN "report" ELSE "groups"
    /\ results' = NewResults
    /\ listed' = <<>>
    /\ fetched' = <<>>
    /\ UNCHANGED <<error, pi, datasets, ri, printed, n_list_queries,
                   n_info_queries, n_failed, n_listed, parse_in, parse_out>>

\* a float quotient num / (den * 1024**4) kept exact; den = 0 is never built
Quotient(num, den) == [num |-> num, den |-> den]

\* a / b of lines 134-137, which raises when b is 0
TrueDiv(a, b) ==
    IF b = 0 THEN [raised |-> "ZeroDivisionError", value |-> Quotient(0, 1)]
    ELSE [raised |-> "none", value |-> Quotient(a.num, a.den * b)]

\* the literal 0 of the else branches
Returned(q) == [raised |-> "none", value |-> q]

\* lines 132-133
total_size_tb(res) == Quotient(res.total_size, 1)

\* lines 134-135
average_size_per_dataset_tb(res) ==
    IF res.total_datasets > 0
    THEN TrueDiv(total_size_tb(res), res.total_datasets)
    ELSE Returned(Quotient(0, 1))

\* mutant: the guard tests total_datasets, the divisor is total_events
average_size_per_event_tb_WrongGuard(res) ==
    IF res.total_datasets > 0
    THEN TrueDiv(total_size_tb(res), res.total_events)
    ELSE Returned(Quotient(0, 1))

\* lines 136-137
average_size_per_event_tb(res) ==
    IF res.total_events > 0
    THEN TrueDiv(total_size_tb(res), res.total_events)
    ELSE Returned(Quotient(0, 1))

\* lines 143-147: reading d[year] of a defaultdict inserts a missing key
ReadYears(d) == [y \in DOMAIN d \cup YearSet |-> DictGet(d, y)]

\* lines 139-151: the lines printed for one group
Block(name, res, avg_ds, avg_ev) ==
    [group |-> name,
     total_datasets |-> res.total_datasets,
     total_size_tb |-> total_size_tb(res),
     count_by_year |-> [y \in YearSet |-> DictGet(res.count_by_year, y)],
     size_by_year |-> [y \in YearSet |-> Quotient(DictGet(res.size_by_year, y), 1)],
     average_size_per_dataset_tb |-> avg_ds,
     average_size_per_event_tb |-> avg_ev]

\* lines 131-151: one pass of the report loop
ReportGroup ==
    /\ pc = "report"
    /\ ri <= Len(group_results)
    /\ LET name == group_results[ri].name
           res == group_results[ri].results
           avg_ds == average_size_per_dataset_tb(res)
           avg_ev == average_size_per_event_tb(res)
       IN IF avg_ds.raised # "none" \/ avg_ev.raised # "none"
          THEN /\ Crash("ZeroDivisionError")
               /\ UNCHANGED <<group_results, ri, printed>>
          ELSE /\ printed' = Append(printed, Block(name, res, avg_ds.value, avg_ev.value))
               /\ group_results' =
                     [group_results EXCEPT
                        ![ri].results.count_by_year = ReadYears(@),
                        ![ri].results.size_by_year = ReadYears(@)]
               /\ ri' = ri + 1
               /\ pc' = IF ri = Len(group_results) THEN "done" ELSE "report"
               /\ error' = error
    /\ UNCHANGED <<gi, pi, datasets, results, n_list_queries, n_info_queries,
                   listed, fetched, n_failed, n_listed, parse_in, parse_out>>

Next ==
    \/ BeginGroup
    \/ ListPattern
    \/ FoldDataset
    \/ ReturnGroup
    \/ ReportGroup

Spec == Init /\ [][Next]_vars

-----------------------------------------------------------------------------
(* The parsers on their own: a client run is drawn, and get_datasets or    *)
(* get_dataset_info is applied to it.                                      *)

ParseRuns(infos) ==
    ClientRuns(infos, 1, MaxRecords) \cup ClientRuns(infos, 2, 1)

InitParse ==
    /\ pc = "parse"
    /\ parse_in \in {[kind |-> "list", run |-> r] : r \in ParseRuns(ListInfos)}
                   \cup {[kind |-> "info", run |-> r] : r \in ParseRuns(MetaInfos)}
    /\ parse_out = NoAnswer
    /\ error = "none"
    /\ gi = 1
    /\ pi = 1
    /\ datasets = <<>>
    /\ results = NewResults
    /\ group_results = <<>>
    /\ ri = 1
    /\ printed = <<>>
    /\ n_list_queries = 0
    /\ n_info_queries = 0
    /\ listed = <<>>
    /\ fetched = <<>>
    /\ n_failed = 0
    /\ n_listed = 0

ParseListing ==
    /\ pc = "parse"
    /\ parse_in.kind = "list"
    /\ parse_out' = get_datasets(parse_in.run)
    /\ pc' = "parsed"
    /\ UNCHANGED <<error, gi, pi, datasets, results, group_results, ri, printed,
                   n_list_queries, n_info_queries, listed, fetched, n_failed,
                   n_listed, parse_in>>

ParseInfo ==
    /\ pc = "parse"
    /\ parse_in.kind = "info"
    /\ parse_out' = get_dataset_info(parse_in.run)
    /\ pc' = "parsed"
    /\ UNCHANGED <<error, gi, pi, datasets, results, group_results, ri, printed,
                   n_list_queries, n_info_queries, listed, fetched, n_failed,
                   n_listed, parse_in>>

NextParse ==
    \/ ParseListing
    \/ ParseInfo

SpecParse == InitParse /\ [][NextParse]_vars

-----------------------------------------------------------------------------
(* History of the current group, read back *)

RECURSIVE SumUpTo(_, _, _)
\* the sum of f[i] over the indices i <= n of sequence f that are in S
SumUpTo(f, S, n) ==
    IF n = 0 THEN 0
    ELSE (IF n \in S THEN f[n] ELSE 0) + SumUpTo(f, S, n - 1)

\* the sum of f[i] over the indices i of sequence f that are in S
SumOver(f, S) == SumUpTo(f, S, Len(f))

\* the sum of d[y] over the three years
SumYears(d) == SumOver([i \in 1..Len(Years) |-> d[Years[i]]], 1..Len(Years))

\* the fetches of the current group with both values not None
CountedIdx == {i \in 1..Len(fetched) : ~fetched[i].size.isNone /\ ~fetched[i].events.isNone}

FetchedNames == [i \in 1..Len(fetched) |-> fetched[i].name]

FetchedSizes == [i \in 1..Len(fetched) |-> fetched[i].size.val]

FetchedEvents == [i \in 1..Len(fetched) |-> fetched[i].events.val]

\* the years whose token occurs in a name
TokensIn(name) == {y \in YearSet : \E i \in 1..Len(name) : name[i] = YearToken(y)}

\* whether y is the earliest year, in the order Run2022, Run2023, Run2024,
\* whose token occurs in the name
IsFirstToken(y, name) ==
    \E i \in 1..Len(Years) :
        /\ Years[i] = y
        /\ y \in TokensIn(name)
        /\ \A j \in 1..(i - 1) : Years[j] \notin TokensIn(name)

Occurrences(n, names) == Cardinality({i \in 1..Len(names) : names[i] = n})

-----------------------------------------------------------------------------
(* Claims *)

\* C1: the totals of process_datasets are the number, the summed sizes and
\* the summed event counts of the listed datasets, in listing order, whose
\* fetched size and event count are both not None; a dataset with a None
\* value adds to no total and to no year bucket, one with size 0 or 0 events
\* is counted.
C1_TotalsAreSumsOfCounted ==
    /\ FetchedNames \o datasets = listed
    /\ results.total_datasets = Cardinality(CountedIdx)
    /\ results.total_size = SumOver(FetchedSizes, CountedIdx)
    /\ results.total_events = SumOver(FetchedEvents, CountedIdx)
    /\ \A y \in YearSet :
        LET withTok == {i \in CountedIdx : y \in TokensIn(fetched[i].name)} IN
        /\ DictGet(results.count_by_year, y) <= Cardinality(withTok)
        /\ DictGet(results.size_by_year, y) <= SumOver(FetchedSizes, withTok)

\* a dataset with a None value was skipped, and one with size 0 and 0 events
\* was counted
C1_Witness ==
    /\ AtReturn
    /\ Len(fetched) = 2
    /\ Cardinality(CountedIdx) = 1
    /\ \E i \in CountedIdx : fetched[i].size.val = 0 /\ fetched[i].events.val = 0
    /\ \E i \in 1..Len(fetched) : fetched[i].size.isNone /\ ~fetched[i].events.isNone
    /\ results.total_datasets = 1

\* C2: every counted dataset adds its size and one count to the bucket of
\* the first of Run2022, Run2023, Run2024 that occurs in its name and to no
\* other bucket; a name with several tokens goes to the earliest year only.
C2_FirstTokenBucket ==
    \A y \in YearSet :
        LET mine == {i \in CountedIdx : IsFirstToken(y, fetched[i].name)} IN
        /\ DictGet(results.count_by_year, y) = Cardinality(mine)
        /\ DictGet(results.size_by_year, y) = SumOver(FetchedSizes, mine)
        /\ (y \in DOMAIN results.count_by_year) = (mine # {})
        /\ DOMAIN results.size_by_year = DOMAIN results.count_by_year

\* a name with the tokens Run2024 and Run2022 was counted into 2022 only
C2_Witness ==
    /\ Len(fetched) = 1
    /\ fetched[1].name = NameMulti
    /\ fetched[1].size.val = 2
    /\ CountedIdx = {1}
    /\ DOMAIN results.size_by_year = {"2022"}
    /\ results.size_by_year["2022"] = 2
    /\ results.total_size = 2

\* C3: after every folded dataset, total_datasets is the sum of count_by_year
\* plus the number of counted datasets whose name has none of the three
\* tokens; so total_datasets >= sum of count_by_year and total_size >= sum of
\* size_by_year.
C3_TotalIsBucketsPlusUnrecognized ==
    LET counts == [y \in YearSet |-> DictGet(results.count_by_year, y)]
        sizes == [y \in YearSet |-> DictGet(results.size_by_year, y)]
        unrecognized == {i \in CountedIdx : TokensIn(fetched[i].name) = {}}
    IN /\ results.total_datasets = SumYears(counts) + Cardinality(unrecognized)
       /\ results.total_datasets >= SumYears(counts)
       /\ results.total_size >= SumYears(sizes)

\* in the middle of a listing, a dataset without a token has been counted
C3_Witness ==
    /\ pc = "fold"
    /\ datasets # <<>>
    /\ results.total_datasets = 1
    /\ results.total_size = 2
    /\ DOMAIN results.count_by_year = {}
    /\ fetched[1].name = NameOther

\* a record of the expected shape: an object whose 'dataset' is a list
EntryOk(entry) ==
    entry.type = "object" /\ "dataset" \in entry.keys /\ entry.dataset.type = "list"

HasBoth(ds_info) ==
    ds_info.type = "object" /\ "size" \in ds_info.keys /\ "nevents" \in ds_info.keys

\* the places of an answer in record order: record i as a whole is <<i, 0>>,
\* its member j is <<i, j>>
Before(p, q) == p[1] < q[1] \/ (p[1] = q[1] /\ p[2] < q[2])

\* the members that carry both a size and an nevents field
Hits(items) ==
    UNION {{<<i, j>> : j \in {k \in 1..Len(items[i].dataset.items) :
                                HasBoth(items[i].dataset.items[k])}} :
           i \in {k \in 1..Len(items) : EntryOk(items[k])}}

\* the places where the walk of get_dataset_info raises
Faults(items) ==
    {<<i, 0>> : i \in {k \in 1..Len(items) : ~EntryOk(items[k])}}
    \cup UNION {{<<i, j>> : j \in {k \in 1..Len(items[i].dataset.items) :
                                        items[i].dataset.items[k].type = "number"}} :
                 i \in {k \in 1..Len(items) : EntryOk(items[k])}}

\* what C4 says get_dataset_info returns for an answer
ClaimedInfo(data) ==
    IF data.type # "list" THEN Pair(None, None)
    ELSE LET live == {h \in Hits(data.items) :
                        /\ \A g \in Hits(data.items) : g = h \/ Before(h, g)
                        /\ \A f \in Faults(data.items) : Before(h, f)}
         IN IF live = {} THEN Pair(None, None)
            ELSE LET h == CHOOSE x \in live : TRUE
                     ds_info == data.items[h[1]].dataset.items[h[2]]
                 IN Pair(ds_info.size, ds_info.nevents)

\* C4: get_dataset_info returns the (size, nevents) of the first member, in
\* record order, that has both fields; (None, None) when no record has both
\* or when the walk meets a structural error; so the caller can always
\* unpack the result into two values.
C4_InfoIsAlwaysAPair ==
    (pc = "parsed" /\ parse_in.kind = "info" /\ parse_out.raised = "none")
        => /\ parse_out.info.unpackable
           /\ parse_out.info = ClaimedInfo(parse_in.run.data)

\* C5: whatever the client calls come to (non-zero exit, empty result,
\* records of unexpected shape, records without size or nevents), no run of
\* main ends early with an uncaught error. Output of the client that is no
\* JSON is not among these outcomes, so the error json.loads raises on it is
\* set aside.
C5_NoUncaughtError ==
    pc = "crashed" => error = "JSONDecodeError"

\* C6: a listing for which the client exits non-zero is one invocation of the
\* client, yields no dataset and no metadata query, changes nothing in the
\* results and lets the run go on with the next pattern; a metadata query is
\* only made for a listed dataset; a group all of whose listings exited
\* non-zero returns all-zero totals and empty year buckets.
C6_FailedListingAddsNothing ==
    [][/\ (pc = "fold" /\ n_failed' = n_failed + 1)
            => /\ n_list_queries' = n_list_queries + 1
               /\ n_info_queries' = n_info_queries
               /\ datasets' = <<>>
               /\ listed' = listed
               /\ results' = results
               /\ pi' = pi + 1
               /\ pc' = "fold"
               /\ error' = "none"
       /\ (n_info_queries' # n_info_queries) => datasets # <<>>
       /\ (pc = "fold" /\ pc' \in {"groups", "report"} /\ n_failed = NumPatterns(gi))
            => LET r == group_results'[gi].results IN
               /\ r.total_datasets = 0
               /\ r.total_size = 0
               /\ r.total_events = 0
               /\ DOMAIN r.size_by_year = {}
               /\ DOMAIN r.count_by_year = {}]_vars

\* every listing of the last group exited non-zero, and the run went on to
\* its end
C6_Witness ==
    /\ pc = "done"
    /\ n_failed = NumPatterns(NumGroups)
    /\ n_failed >= 2
    /\ Len(printed) = NumGroups
    /\ printed[NumGroups].total_datasets = 0

\* an answer all of whose records and members have the expected shape
WellFormedListing(data) ==
    /\ data.type = "list"
    /\ \A i \in 1..Len(data.items) :
        /\ EntryOk(data.items[i])
        /\ \A j \in 1..Len(data.items[i].dataset.items) :
            LET ds_info == data.items[i].dataset.items[j] IN
            ds_info.type = "object" /\ "name" \in ds_info.keys

RECURSIVE AllNames(_)
\* the names of all members of all records, in the order of the answer
AllNames(entries) ==
    IF entries = <<>> THEN <<>>
    ELSE [j \in 1..Len(Head(entries).dataset.items) |-> Head(entries).dataset.items[j].name]
         \o AllNames(Tail(entries))

\* C7: get_datasets returns the names of all members of all records, in the
\* order of the answer, or the empty sequence: one record or member of
\* another shape makes it return [], the names collected before it included.
C7_AllNamesOrNothing ==
    (pc = "parsed" /\ parse_in.kind = "list" /\ parse_out.raised = "none")
        => parse_out.datasets =
             IF WellFormedListing(parse_in.run.data)
             THEN AllNames(parse_in.run.data.items)
             ELSE <<>>

\* a well-formed record with a name is followed by a record without the
\* 'dataset' key, and nothing is returned
C7_Witness ==
    /\ pc = "parsed"
    /\ parse_in.kind = "list"
    /\ parse_in.run.returncode = 0
    /\ parse_in.run.data.type = "list"
    /\ Len(parse_in.run.data.items) = 2
    /\ EntryOk(parse_in.run.data.items[1])
    /\ Len(parse_in.run.data.items[1].dataset.items) = 1
    /\ parse_in.run.data.items[1].dataset.items[1].name = Name2022
    /\ "dataset" \notin parse_in.run.data.items[2].keys
    /\ parse_out.datasets = <<>>

\* every field of a is at most the field of b, a missing year reading as 0
ResultsLeq(a, b) ==
    /\ a.total_datasets <= b.total_datasets
    /\ a.total_size <= b.total_size
    /\ a.total_events <= b.total_events
    /\ DOMAIN a.size_by_year \subseteq DOMAIN b.size_by_year
    /\ DOMAIN a.count_by_year \subseteq DOMAIN b.count_by_year
    /\ \A y \in YearSet :
        /\ DictGet(a.size_by_year, y) <= DictGet(b.size_by_year, y)
        /\ DictGet(a.count_by_year, y) <= DictGet(b.count_by_year, y)

\* the same totals and the same value of every year, a missing year reading as 0
SameValues(a, b) ==
    /\ a.total_datasets = b.total_datasets
    /\ a.total_size = b.total_size
    /\ a.total_events = b.total_events
    /\ \A y \in YearSet :
        /\ DictGet(a.size_by_year, y) = DictGet(b.size_by_year, y)
        /\ DictGet(a.count_by_year, y) = DictGet(b.count_by_year, y)

\* no field decreases during the fold, and what the fold built is what main
\* stores for the group; a block is printed only when the results of all
\* groups are there, and the blocks come in the order of group_patterns
FoldGrowsAndReportsInOrder ==
    /\ (pc = "fold" /\ pc' = "fold") => ResultsLeq(results, results')
    /\ (pc = "fold" /\ pc' \in {"groups", "report"})
         => group_results' = Append(group_results,
                                    [name |-> group_patterns[gi].name, results |-> results])
    /\ (printed' # printed)
         => /\ Len(group_results) = NumGroups
            /\ gi > NumGroups
            /\ Len(printed') = Len(printed) + 1
            /\ SubSeq(printed', 1, Len(printed)) = printed
            /\ printed'[Len(printed')].group = group_patterns[Len(printed')].name
            /\ printed'[Len(printed')].group = group_results[Len(printed')].name

\* C8 as stated: with sizes and event counts >= 0 no field of a group's
\* result decreases during the fold, no block is printed before all groups
\* have their results, the blocks come in the order of the groups, and no
\* group's result is changed after the first block is printed.
C8_ResultUntouchedAfterFirstBlock ==
    [][/\ FoldGrowsAndReportsInOrder
       /\ (printed # <<>>) => group_results' = group_results]_vars

\* C8, amended: as above, but after the first block is printed it is the
\* totals and the value of every year (a missing year reading as 0) of every
\* group that stay as they are; the report's own reads of count_by_year[year]
\* and size_by_year[year] insert the missing years with value 0.
C8_ValuesUntouchedAfterFirstBlock ==
    [][/\ FoldGrowsAndReportsInOrder
       /\ (printed # <<>>)
            => /\ Len(group_results') = Len(group_results)
               /\ \A i \in 1..Len(group_results) :
                   /\ group_results'[i].name = group_results[i].name
                   /\ SameValues(group_results[i].results, group_results'[i].results)
                   /\ ResultsLeq(group_results[i].results, group_results'[i].results)]_vars

\* all blocks are printed, the last group counted a dataset of 2023 only, and
\* its dicts now hold the three years the report read
C8_Witness ==
    /\ pc = "done"
    /\ Len(printed) = NumGroups
    /\ NumGroups >= 2
    /\ printed[NumGroups].total_datasets = 1
    /\ printed[NumGroups].count_by_year["2023"] = 1
    /\ group_results[NumGroups].results.count_by_year["2022"] = 0
    /\ DOMAIN group_results[NumGroups].results.count_by_year = YearSet

\* C9: the report never divides by zero: the average size per dataset is 0
\* when total_datasets is 0 and total_size / total_datasets otherwise, the
\* average size per event is 0 when total_events is 0, also with
\* total_datasets > 0, and total_size / total_events otherwise.
C9_NoDivisionByZero ==
    /\ error # "ZeroDivisionError"
    /\ \A i \in 1..Len(printed) :
        LET r == group_results[i].results
            b == printed[i]
        IN /\ b.average_size_per_dataset_tb =
                 IF r.total_datasets = 0 THEN Quotient(0, 1)
                 ELSE Quotient(r.total_size, r.total_datasets)
           /\ b.average_size_per_event_tb =
                 IF r.total_events = 0 THEN Quotient(0, 1)
                 ELSE Quotient(r.total_size, r.total_events)

\* a group with counted datasets, none of which has events, was reported
C9_Witness ==
    /\ Len(printed) >= 1
    /\ group_results[1].results.total_datasets > 0
    /\ group_results[1].results.total_events = 0
    /\ printed[1].average_size_per_event_tb = Quotient(0, 1)
    /\ printed[1].average_size_per_dataset_tb.den = group_results[1].results.total_datasets

\* C10: names are not de-duplicated: every occurrence of a name in the
\* listings of a group is fetched, and a name listed k times with the same
\* complete metadata at each fetch adds k to total_datasets and k times its
\* size and event count to the totals and to its year bucket.
C10_NoDeduplication ==
    /\ \A n \in Names :
        Occurrences(n, FetchedNames) + Occurrences(n, datasets) = Occurrences(n, listed)
    /\ (CountedIdx = 1..Len(fetched)) => results.total_datasets = Len(fetched)
    /\ \A n \in Names :
        (/\ fetched # <<>>
         /\ CountedIdx = 1..Len(fetched)
         /\ \A i \in 1..Len(fetched) : fetched[i] = [fetched[1] EXCEPT !.name = n])
        => LET k == Occurrences(n, FetchedNames) IN
           /\ results.total_datasets = k
           /\ results.total_size = k * fetched[1].size.val
           /\ results.total_events = k * fetched[1].events.val
           /\ \A y \in YearSet :
               IsFirstToken(y, n)
               => /\ DictGet(results.count_by_year, y) = k
                  /\ DictGet(results.size_by_year, y) = k * fetched[1].size.val

\* one name was listed twice for a group and counted twice
C10_Witness ==
    /\ AtReturn
    /\ listed = <<Name2023, Name2023>>
    /\ Len(fetched) = 2
    /\ fetched[1] = fetched[2]
    /\ fetched[1].size.val = 2
    /\ results.total_datasets = 2
    /\ results.total_size = 4
    /\ results.size_by_year["2023"] = 4
    /\ results.total_datasets > Cardinality({listed[i] : i \in 1..Len(listed)})

====
